---- MODULE Spec2Model ----
(***************************************************************************)
(* State-machine model of ip.py: the startup credential check, the run     *)
(* driver over the two ticker groups, get_financial_data,                  *)
(* create_interactive_plotly_dashboard and save_plotly_figures_as_html.    *)
(*                                                                         *)
(* Conventions.  A Python value that may be None (or a float that may be   *)
(* NaN) is an option: <<>> is None/NaN and <<v>> is the value v.  A dict   *)
(* is the sequence of its items in insertion order.  A float is the exact  *)
(* rational <<n, d>> (d > 0, lowest terms).  A string built by an f-string *)
(* is the sequence of its pieces.  The status glyphs of titles and log     *)
(* lines are left out of the string literals (ASCII only).                 *)
(***************************************************************************)
EXTENDS Integers, Sequences, FiniteSets, TLC

(* ---------------------------------------------------------------- bounds *)
\* Longest closing-price series and largest closing price of the datasets
\* handed to the report builder in SpecBuild.
MaxDays == 2
MaxPrice == 2
\* Number of distinct identifiers the random identifier source can deliver.
MaxDivId == 2

(* ------------------------------------------------------ program constants *)
None == <<>>
Some(v) == <<v>>

\* ip.py:23-26.  The driver visits the groups in this order (ip.py:130, 136).
GroupNames == <<"US Banks", "US Banks in India">>
TICKER_GROUPS ==
    ("US Banks" :> <<"JPM", "BAC", "C", "WFC", "GS">>) @@
    ("US Banks in India" :> <<"JPM", "WFC", "C", "BAC">>)

\* ip.py:129
time_period == "5y"

\* Values os.getenv can deliver for a credential variable: unset (None), set
\* to the empty string, set to a non-empty string.
EnvValues == {None, Some(""), Some("key")}

(* ------------------------------------------------- the market-data provider *)
\* What stock.history(period) can do for one symbol: raise, or return a
\* frame whose Close column is hist (<<>> is the empty frame).
ProviderHistories == {<<1, 2>>}
PriceOutcomes ==
    {[raised |-> TRUE, hist |-> <<>>]} \cup
    {[raised |-> FALSE, hist |-> h] : h \in {<<>>} \cup ProviderHistories}

\* What stock.financials can do: raise, or return a frame that has or lacks a
\* "Total Revenue" row; the row holds one value per reporting period.
ProviderRows == {<<>>, <<3, 5>>}
FinOutcomes ==
    {[raised |-> TRUE, hasRow |-> FALSE, row |-> <<>>],
     [raised |-> FALSE, hasRow |-> FALSE, row |-> <<>>]} \cup
    {[raised |-> FALSE, hasRow |-> TRUE, row |-> r] : r \in ProviderRows}

(* ------------------------------------------------------------ dict helpers *)
Keys(d) == [k \in 1..Len(d) |-> d[k].key]
KeySet(d) == {d[k].key : k \in 1..Len(d)}
HasKey(d, key) == key \in KeySet(d)
Lookup(d, key) == d[CHOOSE k \in 1..Len(d) : d[k].key = key].value

\* d[key] = value on an insertion-ordered dict: an existing key keeps its
\* place, a new key goes last.
DictSet(d, key, value) ==
    IF HasKey(d, key)
    THEN [k \in 1..Len(d) |-> IF d[k].key = key THEN [key |-> key, value |-> value] ELSE d[k]]
    ELSE Append(d, [key |-> key, value |-> value])

(* ------------------------------------------------------ get_financial_data *)
\* ip.py:38-44: the revenue sub-step.  Its own try/except turns any failure
\* into revenue = None.
Revenue(fin) ==
    IF fin.raised THEN None
    ELSE IF fin.hasRow /\ fin.row # <<>> THEN Some(fin.row[1])
    ELSE None

\* FetchOne without the outer try/except: a failing price request leaves the
\* loop body.
FetchOne_NoOuterTry(all_data, ticker, price, fin) ==
    IF price.raised THEN [all_data |-> all_data, escaped |-> TRUE]
    ELSE IF price.hist = <<>> THEN [all_data |-> all_data, escaped |-> FALSE]
    ELSE [all_data |-> DictSet(all_data, ticker,
                               [history |-> price.hist, revenue |-> Revenue(fin)]),
          escaped |-> FALSE]

\* FetchOne without the inner try/except: a failing revenue request is caught
\* by the outer handler and the symbol is dropped.
FetchOne_NoInnerTry(all_data, ticker, price, fin) ==
    IF price.raised \/ price.hist = <<>> \/ fin.raised
    THEN [all_data |-> all_data, escaped |-> FALSE]
    ELSE [all_data |-> DictSet(all_data, ticker,
                               [history |-> price.hist, revenue |-> Revenue(fin)]),
          escaped |-> FALSE]

\* ip.py:30-48: one iteration of the loop, given what the provider did.
\* escaped says whether an exception left the loop body.
FetchOne(all_data, ticker, price, fin) ==
    IF price.raised THEN [all_data |-> all_data, escaped |-> FALSE]
    ELSE IF price.hist = <<>> THEN [all_data |-> all_data, escaped |-> FALSE]
    ELSE [all_data |-> DictSet(all_data, ticker,
                               [history |-> price.hist, revenue |-> Revenue(fin)]),
          escaped |-> FALSE]

(* ------------------------------------- create_interactive_plotly_dashboard *)
NaN == <<>>

RECURSIVE GCD(_, _)
GCD(a, b) == IF b = 0 THEN a ELSE GCD(b, a % b)
Abs(n) == IF n < 0 THEN -n ELSE n

\* The float n/d, in lowest terms.
Rat(n, d) == LET c == GCD(Abs(n), d) IN <<n \div c, d \div c>>
RatAdd(a, b) == Rat(a[1] * b[2] + b[1] * a[2], a[2] * b[2])
RatLeq(a, b) == a[1] * b[2] <= b[1] * a[2]

MaxOf(S) == CHOOSE m \in S : \A n \in S : n <= m

\* ip.py:52-53: pd.concat(..., axis=1) of the Close columns, named by the
\* dict's keys.  The rows are the union of the dates; every history ends on
\* the latest trading day, so a shorter one has NaN in the leading rows.
ClosingPrices(data) ==
    LET days == MaxOf({Len(data[c].value.history) : c \in 1..Len(data)})
    IN [columns |-> Keys(data),
        days |-> days,
        values |-> [c \in 1..Len(data) |->
            LET h == data[c].value.history
                lead == days - Len(h)
            IN [d \in 1..days |-> IF d > lead THEN Some(h[d - lead]) ELSE NaN]]]

\* ip.py:55: reset_index().melt(id_vars='Date', ...): one row per column and
\* date, column after column.
Melt(table) ==
    [k \in 1..(Len(table.columns) * table.days) |->
        LET c == ((k - 1) \div table.days) + 1
            d == ((k - 1) % table.days) + 1
        IN [Date |-> d, Ticker |-> table.columns[c], Close |-> table.values[c][d]]]

\* ip.py:63: the revenues that are not None, in the dict's order.
RECURSIVE Revenues(_)
Revenues(data) ==
    IF data = <<>> THEN <<>>
    ELSE LET e == Head(data)
         IN (IF e.value.revenue # None
             THEN <<[key |-> e.key, value |-> e.value.revenue[1]]>>
             ELSE <<>>) \o Revenues(Tail(data))

\* RevenueChart without the "if revenues" test: a bar chart in every case.
RevenueChart_AlwaysBar(data) ==
    LET revenues == Revenues(data)
    IN [kind |-> "bar",
        x |-> [k \in 1..Len(revenues) |-> revenues[k].key],
        y |-> [k \in 1..Len(revenues) |-> revenues[k].value],
        annotations |-> <<>>,
        title |-> "Latest Reported Revenue", template |-> "plotly_white"]

\* ip.py:64-73
RevenueChart(data) ==
    LET revenues == Revenues(data)
    IN IF revenues # <<>>
       THEN [kind |-> "bar",
             x |-> [k \in 1..Len(revenues) |-> revenues[k].key],
             y |-> [k \in 1..Len(revenues) |-> revenues[k].value],
             annotations |-> <<>>,
             title |-> "Latest Reported Revenue", template |-> "plotly_white"]
       ELSE [kind |-> "figure",
             x |-> <<>>,
             y |-> <<>>,
             annotations |-> <<"No Revenue Data Available">>,
             title |-> "Latest Reported Revenue", template |-> "plotly_white"]

\* DataFrame.pct_change of one column: row d holds (p[d] - p[d-1]) / p[d-1],
\* NaN in the first row and wherever one of the two prices is missing.
PctChange(col) ==
    [d \in 1..Len(col) |->
        IF d > 1 /\ col[d] # NaN /\ col[d - 1] # NaN
        THEN Some(Rat(col[d][1] - col[d - 1][1], col[d - 1][1]))
        ELSE NaN]

RECURSIVE RatSum(_)
RatSum(s) == IF s = <<>> THEN <<0, 1>> ELSE RatAdd(Head(s)[1], RatSum(Tail(s)))

\* DataFrame.mean of one column: NaN is skipped; no value at all gives NaN.
Mean(col) ==
    LET valid == SelectSeq(col, LAMBDA v : v # NaN)
    IN IF valid = <<>> THEN NaN
       ELSE LET s == RatSum(valid) IN Some(Rat(s[1], s[2] * Len(valid)))

\* InsertSorted for a descending sort (sort_values(ascending=False)).
RECURSIVE InsertSorted_Descending(_, _)
InsertSorted_Descending(sorted, e) ==
    IF sorted = <<>> THEN <<e>>
    ELSE IF RatLeq(e.value[1], Head(sorted).value[1])
         THEN <<Head(sorted)>> \o InsertSorted_Descending(Tail(sorted), e)
         ELSE <<e>> \o sorted

\* e goes after every element that is not greater than it.
RECURSIVE InsertSorted(_, _)
InsertSorted(sorted, e) ==
    IF sorted = <<>> THEN <<e>>
    ELSE IF RatLeq(Head(sorted).value[1], e.value[1])
         THEN <<Head(sorted)>> \o InsertSorted(Tail(sorted), e)
         ELSE <<e>> \o sorted

RECURSIVE InsertionSort(_)
InsertionSort(s) ==
    IF s = <<>> THEN <<>>
    ELSE InsertSorted(InsertionSort(SubSeq(s, 1, Len(s) - 1)), s[Len(s)])

\* Series.sort_values(): ascending, NaN last.
SortValues(s) ==
    InsertionSort(SelectSeq(s, LAMBDA e : e.value # NaN))
        \o SelectSeq(s, LAMBDA e : e.value = NaN)

\* ip.py:75: closing_prices.pct_change().mean().sort_values()
Returns(table) ==
    SortValues([c \in 1..Len(table.columns) |->
        [key |-> table.columns[c], value |-> Mean(PctChange(table.values[c]))]])

\* ip.py:51-80.  The result is [fig1, fig2, fig3, fig4].
create_interactive_plotly_dashboard(data, group_name, period) ==
    LET closing_prices == ClosingPrices(data)
        melted_prices == Melt(closing_prices)
        returns == Returns(closing_prices)
        fig1 == [kind |-> "line", data |-> closing_prices,
                 title |-> <<"Price Trend Over Time (", group_name, ")">>,
                 title_font_size |-> 20, template |-> "plotly_white"]
        fig2 == [kind |-> "box", data |-> melted_prices,
                 x |-> "Ticker", y |-> "Close", color |-> "Ticker",
                 title |-> "Stock Price Distribution", template |-> "plotly_white"]
        fig3 == RevenueChart(data)
        fig4 == [kind |-> "bar",
                 x |-> [k \in 1..Len(returns) |-> returns[k].key],
                 y |-> [k \in 1..Len(returns) |-> returns[k].value],
                 title |-> "Average Daily Returns", template |-> "plotly_white"]
    IN <<fig1, fig2, fig3, fig4>>

(* --------------------------------------------- save_plotly_figures_as_html *)
\* to_html of a library version that also gives every trace a random uid.
to_html_TraceUid(fig, id) ==
    [div_id |-> id,
     script |-> [target |-> id, figure |-> [fig |-> fig, uid |-> id], plotlyjs |-> "cdn"]]

\* ip.py:90: fig.to_html(full_html=False, include_plotlyjs="cdn").  No div_id
\* is passed, so the markup carries a freshly drawn random identifier, both
\* as the id of the div and as the target of the script that draws into it.
to_html(fig, id) ==
    [div_id |-> id,
     script |-> [target |-> id, figure |-> fig, plotlyjs |-> "cdn"]]

\* full_html with the period label left out of the heading.
full_html_NoPeriod(figures, group_name, period, ids) ==
    <<[tag |-> "title", content |-> <<group_name, " Analysis (", period, ")">>],
      [tag |-> "style", content |-> <<"styles">>],
      [tag |-> "h1", content |-> <<group_name, " Interactive Financial Dashboard">>]>>
    \o [k \in 1..Len(figures) |->
          [tag |-> "div.chart-container", content |-> <<to_html(figures[k], ids[k])>>]]

\* ip.py:83-102: the document, element by element.
full_html(figures, group_name, period, ids) ==
    <<[tag |-> "title", content |-> <<group_name, " Analysis (", period, ")">>],
      [tag |-> "style", content |-> <<"styles">>],
      [tag |-> "h1",
       content |-> <<group_name, " Interactive Financial Dashboard (", period, ")">>]>>
    \o [k \in 1..Len(figures) |->
          [tag |-> "div.chart-container", content |-> <<to_html(figures[k], ids[k])>>]]

\* ip.py:104: full_html.encode('utf-8'), element by element.
encode(html) == [k \in 1..Len(html) |-> [utf8 |-> html[k]]]

\* ip.py:105
Filename(group_name, period) ==
    <<group_name, "_interactive_dashboard_", period, ".html">>

\* What the try block can do: boto3.client raises; or upload_fileobj
\* returns; or upload_fileobj raises, having read the buffer up to position
\* pos (the start, part-way or the end).  The transfer layer uses the buffer
\* as the request body inside a with block, so a buffer that reached the
\* request is closed when upload_fileobj returns or raises.
ClientOutcomes(n) ==
    {[client_raises |-> TRUE, upload_raises |-> FALSE, pos |-> 0, closed |-> FALSE],
     [client_raises |-> FALSE, upload_raises |-> FALSE, pos |-> n, closed |-> TRUE]}
    \cup [client_raises : {FALSE}, upload_raises : {TRUE},
          pos : {0, n \div 2, n}, closed : BOOLEAN]

\* What the local file system can do in the except branch: open() raises; or
\* write fails after `written` elements, leaving nothing or all but the last
\* element in the file; or neither fails (written = <<>>).
FileOutcomes(n) ==
    {[open_raises |-> TRUE, written |-> <<>>]}
    \cup [open_raises : {FALSE}, written : {<<>>, <<0>>, <<n - 1>>}]

\* One call's externals.  The file system is not touched when the try block
\* completes.
Externals(n) ==
    {[client_raises |-> c.client_raises, upload_raises |-> c.upload_raises,
      pos |-> c.pos, closed |-> c.closed,
      open_raises |-> f.open_raises, written |-> f.written] :
        c \in {c \in ClientOutcomes(n) : c.client_raises \/ c.upload_raises},
        f \in FileOutcomes(n)}
    \cup
    {[client_raises |-> c.client_raises, upload_raises |-> c.upload_raises,
      pos |-> c.pos, closed |-> c.closed,
      open_raises |-> FALSE, written |-> <<>>] :
        c \in {c \in ClientOutcomes(n) : ~c.client_raises /\ ~c.upload_raises}}

\* Fallback wrapped in a handler of its own: a failure of open() or write()
\* is swallowed.
Fallback_Swallows(buffer, filename, files, x) ==
    IF x.open_raises
    THEN [files |-> files, raised |-> FALSE, os_error |-> TRUE]
    ELSE IF buffer.closed
    THEN [files |-> DictSet(files, filename, <<>>), raised |-> TRUE, os_error |-> FALSE]
    ELSE IF x.written # <<>>
    THEN [files |-> DictSet(files, filename, SubSeq(buffer.bytes, 1, x.written[1])),
          raised |-> FALSE, os_error |-> TRUE]
    ELSE [files |-> DictSet(files, filename, buffer.bytes),
          raised |-> FALSE, os_error |-> FALSE]

\* ip.py:121-125: the except branch.  open(filename, "wb") creates or
\* truncates the file before buffer.getbuffer() is evaluated; getbuffer()
\* returns the whole content whatever the position, and raises ValueError on
\* a closed buffer.  os_error says whether open() or write() failed.
Fallback(buffer, filename, files, x) ==
    IF x.open_raises
    THEN [files |-> files, raised |-> TRUE, os_error |-> TRUE]
    ELSE IF buffer.closed
    THEN [files |-> DictSet(files, filename, <<>>), raised |-> TRUE, os_error |-> FALSE]
    ELSE IF x.written # <<>>
    THEN [files |-> DictSet(files, filename, SubSeq(buffer.bytes, 1, x.written[1])),
          raised |-> TRUE, os_error |-> TRUE]
    ELSE [files |-> DictSet(files, filename, buffer.bytes),
          raised |-> FALSE, os_error |-> FALSE]

\* ip.py:83-104: the bytes the buffer is created with.
Document(figures, group_name, period, ids) ==
    encode(full_html(figures, group_name, period, ids))

\* ip.py:107-125: the try block and its except branch.  uploaded says whether
\* the try block completed, raised whether an exception left the function,
\* os_error whether that exception came from open() or write().
Publish(bytes, filename, s3, files, x) ==
    IF x.client_raises
    THEN LET f == Fallback([bytes |-> bytes, pos |-> 0, closed |-> FALSE],
                           filename, files, x)
         IN [uploaded |-> FALSE, s3 |-> s3, files |-> f.files, raised |-> f.raised,
             os_error |-> f.os_error]
    ELSE IF x.upload_raises
    THEN LET f == Fallback([bytes |-> bytes, pos |-> x.pos, closed |-> x.closed],
                           filename, files, x)
         IN [uploaded |-> FALSE, s3 |-> s3, files |-> f.files, raised |-> f.raised,
             os_error |-> f.os_error]
    ELSE [uploaded |-> TRUE,
          s3 |-> DictSet(s3, filename, [body |-> bytes, ContentType |-> "text/html"]),
          files |-> files, raised |-> FALSE, os_error |-> FALSE]

(* ------------------------------------------------------------------- state *)
VARIABLES
    pc,          \* where the program is
    env,         \* the credential variables as os.getenv delivers them
    exit_status, \* <<>> while running, <<n>> once the process has ended
    g,           \* index in GroupNames of the group being processed
    i,           \* index of the next ticker in the fetch loop
    all_data,    \* get_financial_data's dict being built / the driver's data_*
    figs,        \* the driver's figs_*
    s3,          \* the bucket: object key -> body and content type
    files,       \* the working directory: file name -> content
    financials,  \* the behaviours stock.financials can show in this run
    entropy,     \* the values the random identifier source will deliver
    drawn,       \* how many of them have been drawn
    attempts,    \* history: what the provider did for each ticker of this call
    last_save,   \* history: <<>> or the outcome of the save call just made
    calls,       \* history: the calls the driver has made, in order
    docs         \* history: the documents built by repeated runs (SpecTwice)

vars == <<pc, env, exit_status, g, i, all_data, figs, s3, files, financials, entropy, drawn,
          attempts, last_save, calls, docs>>

group_name == GroupNames[g]

\* An entry of the call history: a call made ("called") or a call's result.
Call(op, group, result) == [op |-> op, group |-> group, result |-> result]
tickers == TICKER_GROUPS[group_name]

\* One identifier is drawn per chart of each document.
NCharts == Len(create_interactive_plotly_dashboard(
                   <<[key |-> "JPM", value |-> [history |-> <<1>>, revenue |-> None]]>>,
                   "", ""))
NDraws == Len(GroupNames) * NCharts
DivIds == 1..MaxDivId

InitCommon ==
    /\ exit_status = None
    /\ i = 1
    /\ figs = <<>>
    /\ s3 = <<>>
    /\ files = <<>>
    /\ drawn = 0
    /\ attempts = <<>>
    /\ last_save = <<>>
    /\ calls = <<>>
    /\ docs = <<>>

\* The program at process start.  Within one run the financials endpoint
\* behaves the same way for every symbol and the identifier source delivers
\* the same value at every draw; SpecFetch and SpecTwice lift these
\* restrictions.
Init ==
    /\ pc = "startup"
    /\ env \in [AWS_ACCESS_KEY_ID : EnvValues, AWS_SECRET_ACCESS_KEY : EnvValues]
    /\ g = 1
    /\ all_data = <<>>
    /\ financials \in {{o} : o \in FinOutcomes}
    /\ entropy = [k \in 1..NDraws |-> 1]
    /\ InitCommon

\* Python truthiness of an os.getenv result.
Truthy(v) == v # None /\ v # Some("")

\* The check with any() in place of all().
CredentialsPresent_Any(e) == Truthy(e.AWS_ACCESS_KEY_ID) \/ Truthy(e.AWS_SECRET_ACCESS_KEY)

\* ip.py:19: all([AWS_ACCESS_KEY_ID, AWS_SECRET_ACCESS_KEY])
CredentialsPresent(e) == Truthy(e.AWS_ACCESS_KEY_ID) /\ Truthy(e.AWS_SECRET_ACCESS_KEY)

\* ip.py:12-21, then the first call of the driver (ip.py:128-130).
Startup ==
    /\ pc = "startup"
    /\ IF CredentialsPresent(env)
       THEN /\ pc' = "fetch"
            /\ calls' = Append(calls, Call("get_financial_data", GroupNames[1], "called"))
            /\ UNCHANGED exit_status
       ELSE /\ pc' = "exited"
            /\ exit_status' = Some(1)
            /\ UNCHANGED calls
    /\ UNCHANGED <<env, g, i, all_data, figs, s3, files, financials, entropy, drawn, attempts,
                   last_save, docs>>

\* ip.py:30-48: one iteration of get_financial_data's loop.
FetchStep ==
    /\ pc = "fetch"
    /\ i <= Len(tickers)
    /\ \E price \in PriceOutcomes, fin \in financials :
         LET r == FetchOne(all_data, tickers[i], price, fin)
             got == ~price.raised /\ price.hist # <<>>
         IN /\ attempts' = Append(attempts,
                  [ticker |-> tickers[i],
                   priceRaised |-> price.raised,
                   hist |-> IF got THEN price.hist ELSE <<>>,
                   finRaised |-> got /\ fin.raised])
            /\ all_data' = r.all_data
            /\ IF r.escaped
               THEN /\ pc' = "crashed"
                    /\ exit_status' = Some(1)
                    /\ UNCHANGED i
               ELSE /\ i' = i + 1
                    /\ UNCHANGED <<pc, exit_status>>
    /\ UNCHANGED <<env, g, figs, s3, files, financials, entropy, drawn, last_save, calls, docs>>

\* ip.py:49: the loop is over, the dict is returned to the driver.
FetchReturn ==
    /\ pc = "fetch"
    /\ i > Len(tickers)
    /\ pc' = "returned"
    /\ calls' = Append(calls, Call("get_financial_data", group_name,
                                   IF all_data = <<>> THEN "empty" ELSE "nonempty"))
    /\ UNCHANGED <<env, exit_status, g, i, all_data, figs, s3, files, financials, entropy,
                   drawn, attempts, last_save, docs>>

\* ip.py:135-136 after the first group; the end of the script after the second.
NextGroup ==
    IF g < Len(GroupNames)
    THEN /\ g' = g + 1
         /\ pc' = "fetch"
         /\ i' = 1
         /\ all_data' = <<>>
         /\ calls' = Append(calls, Call("get_financial_data", GroupNames[g + 1], "called"))
         /\ UNCHANGED exit_status
    ELSE /\ pc' = "done"
         /\ exit_status' = Some(0)
         /\ UNCHANGED <<g, i, all_data, calls>>

\* A driver that stops at the first group without data.
SkipGroup_Ends ==
    /\ pc = "returned"
    /\ all_data = <<>>
    /\ pc' = "done"
    /\ exit_status' = Some(0)
    /\ attempts' = <<>>
    /\ UNCHANGED <<env, g, i, all_data, figs, s3, files, financials, entropy, drawn,
                   last_save, calls, docs>>

\* ip.py:131, 137: "if data:" is false for an empty dict.
SkipGroup ==
    /\ pc = "returned"
    /\ all_data = <<>>
    /\ NextGroup
    /\ attempts' = <<>>
    /\ UNCHANGED <<env, figs, s3, files, financials, entropy, drawn, last_save, docs>>

\* ip.py:132, 138: "if data:" is true; the report builder is called.
Build ==
    /\ pc = "returned"
    /\ all_data # <<>>
    /\ figs' = create_interactive_plotly_dashboard(all_data, group_name, time_period)
    /\ calls' = Append(calls, Call("create_interactive_plotly_dashboard", group_name,
                                   "returned"))
    /\ pc' = "save"
    /\ attempts' = <<>>
    /\ UNCHANGED <<env, exit_status, g, i, all_data, s3, files, financials, entropy, drawn,
                   last_save, docs>>

\* ip.py:133, 139: the publisher is called (ip.py:82-125); an exception it
\* lets out ends the script.
Save ==
    /\ pc = "save"
    /\ LET ids == [k \in 1..Len(figs) |-> entropy[drawn + k]]
           bytes == Document(figs, group_name, time_period, ids)
           filename == Filename(group_name, time_period)
       IN \E x \in Externals(Len(bytes)) :
            LET r == Publish(bytes, filename, s3, files, x)
            IN /\ s3' = r.s3
               /\ files' = r.files
               /\ last_save' = <<[bytes |-> bytes, filename |-> filename,
                                  uploaded |-> r.uploaded, os_error |-> r.os_error,
                                  raised |-> r.raised]>>
               /\ calls' = Append(calls, Call("save_plotly_figures_as_html", group_name,
                                              IF r.raised THEN "raised" ELSE "returned"))
               /\ IF r.raised
                  THEN pc' = "crashed" /\ exit_status' = Some(1)
                  ELSE pc' = "saved" /\ UNCHANGED exit_status
    /\ drawn' = drawn + Len(figs)
    /\ UNCHANGED <<env, g, i, all_data, figs, financials, entropy, attempts, docs>>

\* The publisher returned; the driver goes on.
Continue ==
    /\ pc = "saved"
    /\ NextGroup
    /\ last_save' = <<>>
    /\ figs' = <<>>
    /\ UNCHANGED <<env, s3, files, financials, entropy, drawn, attempts, docs>>

Next ==
    \/ Startup
    \/ FetchStep
    \/ FetchReturn
    \/ SkipGroup
    \/ Build
    \/ Save
    \/ Continue

Spec == Init /\ [][Next]_vars

(* ------------------------------------------------ one call of the fetcher *)
\* get_financial_data called on either group, the provider free to behave
\* differently for every symbol, followed by the report builder when the
\* result is not empty.
InitFetch ==
    /\ pc = "fetch"
    /\ env = [AWS_ACCESS_KEY_ID |-> Some("key"), AWS_SECRET_ACCESS_KEY |-> Some("key")]
    /\ g \in 1..Len(GroupNames)
    /\ all_data = <<>>
    /\ financials = FinOutcomes
    /\ entropy = [k \in 1..NDraws |-> 1]
    /\ InitCommon

NextFetch == FetchStep \/ FetchReturn \/ Build

SpecFetch == InitFetch /\ [][NextFetch]_vars

(* ------------------------------------------- the report builder on its own *)
\* Closing-price series of 1..MaxDays days with prices in 1..MaxPrice.
Series == UNION {[1..n -> 1..MaxPrice] : n \in 1..MaxDays}

\* The datasets get_financial_data can return for the first three symbols of
\* the first group when every price request succeeds and no revenue is found.
BuildSymbols == SubSeq(TICKER_GROUPS[GroupNames[1]], 1, 3)
BuildDatasets ==
    {[k \in 1..Len(BuildSymbols) |->
        [key |-> BuildSymbols[k], value |-> [history |-> h[k], revenue |-> None]]] :
     h \in [1..Len(BuildSymbols) -> Series]}

InitBuild ==
    /\ pc = "returned"
    /\ env = [AWS_ACCESS_KEY_ID |-> Some("key"), AWS_SECRET_ACCESS_KEY |-> Some("key")]
    /\ g = 1
    /\ all_data \in BuildDatasets
    /\ financials = FinOutcomes
    /\ entropy = [k \in 1..NDraws |-> 1]
    /\ InitCommon

NextBuild == Build

SpecBuild == InitBuild /\ [][NextBuild]_vars

(* ------------------------------------ the pipeline run twice on equal data *)
\* Datasets of two symbols with the provider's history, with and without
\* revenue.
TwiceDatasets ==
    {<<[key |-> "JPM", value |-> [history |-> h, revenue |-> r1]],
       [key |-> "BAC", value |-> [history |-> h, revenue |-> r2]]>> :
     h \in ProviderHistories, r1 \in {None, Some(3)}, r2 \in {None, Some(3)}}

InitTwice ==
    /\ pc = "twice"
    /\ env = [AWS_ACCESS_KEY_ID |-> Some("key"), AWS_SECRET_ACCESS_KEY |-> Some("key")]
    /\ g \in 1..Len(GroupNames)
    /\ all_data \in TwiceDatasets
    /\ financials = FinOutcomes
    /\ entropy \in [1..NDraws -> DivIds]
    /\ InitCommon

\* create_interactive_plotly_dashboard followed by the document construction
\* of save_plotly_figures_as_html (ip.py:83-104), on the same data again.
RunPipeline ==
    /\ pc = "twice"
    /\ Len(docs) < 2
    /\ LET figures == create_interactive_plotly_dashboard(all_data, group_name, time_period)
           ids == [k \in 1..Len(figures) |-> entropy[drawn + k]]
       IN /\ docs' = Append(docs, Document(figures, group_name, time_period, ids))
          /\ drawn' = drawn + Len(figures)
    /\ UNCHANGED <<pc, env, exit_status, g, i, all_data, figs, s3, files, financials,
                   entropy, attempts, last_save, calls>>

NextTwice == RunPipeline

SpecTwice == InitTwice /\ [][NextTwice]_vars

(* ================================================================ claims *)
IsPrefix(a, b) == Len(a) <= Len(b) /\ SubSeq(b, 1, Len(a)) = a
Contains(seq, sub) ==
    \E k \in 0..(Len(seq) - Len(sub)) : SubSeq(seq, k + 1, k + Len(sub)) = sub
PositionIn(seq, v) == CHOOSE k \in 1..Len(seq) : seq[k] = v

\* The tickers attempted so far, and those for which a non-empty price
\* history came back, both in the order of the attempts.
AttemptedTickers == [k \in 1..Len(attempts) |-> attempts[k].ticker]
ObtainedTickers ==
    LET got == SelectSeq(attempts, LAMBDA a : a.hist # <<>>)
    IN [k \in 1..Len(got) |-> got[k].ticker]

\* C1: get_financial_data attempts every symbol of its input in order whatever
\* happened to the earlier ones; the dict it returns holds exactly the symbols
\* whose price request returned a non-empty history; no failure of a price
\* request leaves the function (the script only ever dies in the publisher).
C1_FetchIsolation ==
    /\ pc = "fetch" => AttemptedTickers = SubSeq(tickers, 1, i - 1)
    /\ pc = "returned" =>
          /\ AttemptedTickers = tickers
          /\ Keys(all_data) = ObtainedTickers
    /\ pc = "crashed" => last_save # <<>>

\* C1's case: a call has returned in which the first price request raised,
\* the second returned an empty frame and a later one succeeded.
C1_Witness ==
    /\ pc = "returned"
    /\ attempts[1].priceRaised
    /\ ~attempts[2].priceRaised /\ attempts[2].hist = <<>>
    /\ attempts[3].hist # <<>>
    /\ attempts[Len(attempts)].priceRaised

\* C2: a symbol whose price history was obtained and whose revenue request
\* failed is in the returned dict with that history and with revenue None.
C2_RevenueFailureKeepsSymbol ==
    pc = "returned" =>
        \A k \in 1..Len(attempts) :
            attempts[k].finRaised =>
                /\ HasKey(all_data, attempts[k].ticker)
                /\ Lookup(all_data, attempts[k].ticker) =
                       [history |-> attempts[k].hist, revenue |-> None]

\* C2's case: a call has returned in which one revenue request failed and
\* another delivered a value.
C2_Witness ==
    /\ pc = "returned"
    /\ \E j, k \in 1..Len(attempts) :
          /\ attempts[j].finRaised
          /\ attempts[k].hist # <<>>
          /\ Lookup(all_data, attempts[k].ticker).revenue # None

\* The driver's calls about group G, and whether G has an output artifact.
GroupTrace(G) ==
    LET cs == SelectSeq(calls, LAMBDA c : c.group = G)
    IN [k \in 1..Len(cs) |-> <<cs[k].op, cs[k].result>>]
HasArtifact(G) ==
    HasKey(s3, Filename(G, time_period)) \/ HasKey(files, Filename(G, time_period))
TraceWithData(last) ==
    <<<<"get_financial_data", "called">>, <<"get_financial_data", "nonempty">>,
      <<"create_interactive_plotly_dashboard", "returned">>,
      <<"save_plotly_figures_as_html", last>>>>
TraceWithoutData ==
    <<<<"get_financial_data", "called">>, <<"get_financial_data", "empty">>>>

\* C3: for each group the builder and then the publisher are called only
\* after the fetch returned a non-empty dict; after an empty dict neither is
\* called, the group has no artifact, and the driver goes on to the next
\* group (or ends after the last); the groups are processed one after the
\* other.
C3_DriverSkipsEmptyGroup ==
    /\ \A n \in 1..Len(GroupNames) :
         LET t == GroupTrace(GroupNames[n])
         IN /\ \/ IsPrefix(t, TraceWithoutData)
               \/ IsPrefix(t, TraceWithData("returned"))
               \/ IsPrefix(t, TraceWithData("raised"))
            /\ HasArtifact(GroupNames[n]) => Len(t) = 4
            /\ (t = TraceWithoutData /\ ~(pc = "returned" /\ g = n)) =>
                  IF n < Len(GroupNames)
                  THEN GroupTrace(GroupNames[n + 1]) # <<>>
                  ELSE pc = "done"
    /\ \A j, k \in 1..Len(calls) :
         (j < k /\ calls[j].group = GroupNames[2]) => calls[k].group = GroupNames[2]

\* C3's case: the first group came back empty and was skipped, the second
\* was built and published.
C3_Witness ==
    /\ pc = "done"
    /\ GroupTrace(GroupNames[1]) = TraceWithoutData
    /\ GroupTrace(GroupNames[2]) = TraceWithData("returned")
    /\ ~HasArtifact(GroupNames[1])
    /\ HasArtifact(GroupNames[2])

\* C4: when the upload fails (and the local file system does not), a local
\* file of the dashboard's name holds exactly the bytes of the document; when
\* the upload succeeds no local file is written.
C4_FallbackWritesDocument ==
    last_save # <<>> =>
        LET r == last_save[1]
        IN /\ r.uploaded => ~HasKey(files, r.filename)
           /\ (~r.uploaded /\ ~r.os_error) =>
                 /\ r.filename = Filename(group_name, time_period)
                 /\ HasKey(files, r.filename)
                 /\ Lookup(files, r.filename) = r.bytes

IsSet(v) == v # None

\* C5 as stated: the program ends with a non-zero status before any call
\* when the two credential variables are not both set, and the check lets it
\* run when both are set.
C5_Original ==
    pc # "startup" =>
        (pc = "exited") = ~(IsSet(env.AWS_ACCESS_KEY_ID) /\ IsSet(env.AWS_SECRET_ACCESS_KEY))

\* C5 as amended: the program ends with status 1, before any fetch, build,
\* upload or file write, exactly when the two credential variables are not
\* both set to a non-empty value.
C5_StartupCheck ==
    /\ pc # "startup" =>
         (pc = "exited") = ~(/\ env.AWS_ACCESS_KEY_ID \notin {None, Some("")}
                             /\ env.AWS_SECRET_ACCESS_KEY \notin {None, Some("")})
    /\ pc = "exited" =>
         /\ exit_status = Some(1)
         /\ calls = <<>> /\ attempts = <<>> /\ all_data = <<>> /\ figs = <<>>
         /\ s3 = <<>> /\ files = <<>> /\ drawn = 0

\* C5's case: the secret is unset and the process has ended.
C5_Witness ==
    /\ pc = "exited"
    /\ env.AWS_ACCESS_KEY_ID = Some("key")
    /\ env.AWS_SECRET_ACCESS_KEY = None

\* The content of the document's element `tag`.
ElementOf(bytes, tag) ==
    bytes[CHOOSE k \in 1..Len(bytes) : bytes[k].utf8.tag = tag].utf8.content
DashboardHeading(G, P) == <<G, " Interactive Financial Dashboard (", P, ")">>

\* C6 as stated: the title and the h1 of the document both contain
\* "{group_name} Interactive Financial Dashboard ({period_label})".
C6_Original ==
    last_save # <<>> =>
        /\ Contains(ElementOf(last_save[1].bytes, "title"),
                    DashboardHeading(group_name, time_period))
        /\ Contains(ElementOf(last_save[1].bytes, "h1"),
                    DashboardHeading(group_name, time_period))

\* C6 as amended: the h1 contains "{group_name} Interactive Financial
\* Dashboard ({period_label})"; the title is "{group_name} Analysis
\* ({period_label})".
C6_HeadingAndTitle ==
    last_save # <<>> =>
        /\ Contains(ElementOf(last_save[1].bytes, "h1"),
                    DashboardHeading(group_name, time_period))
        /\ ElementOf(last_save[1].bytes, "title") =
               <<group_name, " Analysis (", time_period, ")">>

\* C6's case: the document of the second group has been built.
C6_Witness ==
    /\ last_save # <<>>
    /\ group_name = "US Banks in India"
    /\ Len(last_save[1].bytes) = 3 + NCharts

MaskIds(bytes) ==
    [k \in 1..Len(bytes) |->
        IF bytes[k].utf8.tag = "div.chart-container"
        THEN [utf8 |-> [tag |-> bytes[k].utf8.tag,
                        content |-> <<[bytes[k].utf8.content[1] EXCEPT
                                         !.div_id = 0, !.script.target = 0]>>]]
        ELSE bytes[k]]

RECURSIVE SumOfChanges(_, _)
SumOfChanges(h, d) ==
    IF d < 2 THEN <<0, 1>>
    ELSE RatAdd(SumOfChanges(h, d - 1), <<h[d] - h[d - 1], h[d - 1]>>)
MeanDailyReturn(h) ==
    IF Len(h) < 2 THEN NaN
    ELSE LET t == SumOfChanges(h, Len(h)) IN Some(Rat(t[1], t[2] * (Len(h) - 1)))
StrictlyIncreasing(h) == Len(h) >= 2 /\ \A d \in 2..Len(h) : h[d - 1] < h[d]
StrictlyDecreasing(h) == Len(h) >= 2 /\ \A d \in 2..Len(h) : h[d - 1] > h[d]

WithRevenue == SelectSeq(all_data, LAMBDA e : e.value.revenue # None)

\* C9: the revenue chart is the placeholder with the single annotation "No
\* Revenue Data Available" and no bars exactly when no symbol of the dataset
\* has a revenue; otherwise it is a bar chart with one bar, of that revenue,
\* for each symbol that has one and none for the others.
C9_RevenueChart ==
    (pc = "save" /\ figs # <<>>) =>
        LET fig3 == figs[3]
        IN IF WithRevenue = <<>>
           THEN /\ fig3.kind = "figure"
                /\ fig3.annotations = <<"No Revenue Data Available">>
                /\ fig3.x = <<>> /\ fig3.y = <<>>
           ELSE /\ fig3.kind = "bar"
                /\ fig3.annotations = <<>>
                /\ fig3.x = Keys(WithRevenue)
                /\ fig3.y = [k \in 1..Len(WithRevenue) |-> WithRevenue[k].value.revenue[1]]

\* C9's case: the chart has been built for a dataset in which some symbols
\* have a revenue and some have none.
C9_Witness ==
    /\ pc = "save"
    /\ Len(WithRevenue) >= 2
    /\ Len(WithRevenue) < Len(all_data)
    /\ all_data[1].value.revenue = None

\* C10: when the upload fails and open() or write() of the fallback fails
\* too, the exception leaves save_plotly_figures_as_html; a publisher call
\* that raised is the last thing the driver did: the script has ended with a
\* non-zero status and nothing about a later group was fetched, built or
\* published.
C10_FallbackFailureIsFatal ==
    /\ (last_save # <<>> /\ last_save[1].os_error) =>
          /\ ~last_save[1].uploaded
          /\ last_save[1].raised
    /\ \A k \in 1..Len(calls) :
          (calls[k].op = "save_plotly_figures_as_html" /\ calls[k].result = "raised") =>
              /\ k = Len(calls)
              /\ pc = "crashed"
              /\ exit_status = Some(1)
    /\ (pc = "crashed" /\ g = 1) =>
          /\ GroupTrace(GroupNames[2]) = <<>>
          /\ ~HasArtifact(GroupNames[2])
    /\ (last_save # <<>> /\ last_save[1].raised) => pc = "crashed"

\* C10's case: the first group's upload failed, the local write failed too,
\* and the script has ended.
C10_Witness ==
    /\ pc = "crashed"
    /\ g = 1
    /\ last_save # <<>>
    /\ last_save[1].os_error
    /\ HasKey(files, last_save[1].filename)
====
